---- MODULE Spec2Model ----
(***************************************************************************)
(* Model of src/main.py: the PDF section extractor, the document loader,   *)
(* the relevance ranker, the report assembler and the __main__ pipeline.   *)
(*                                                                         *)
(* Python strings are sequences of one-character strings, so that split,   *)
(* strip, the heading patterns and the title synthesis are computed on the *)
(* characters as the code computes them.  Similarities are cosine values   *)
(* in hundredths (0.1 is 10).                                              *)
(***************************************************************************)
EXTENDS Integers, Sequences, FiniteSets, TLC

VARIABLES
    pc,                   \* position of the modelled call / of __main__
    text,                 \* extract_sections_from_text: argument text
    page_number,          \* extract_sections_from_text: argument page_number
    min_section_length,   \* extract_sections_from_text: argument (<<>> is None)
    page_sections,        \* extract_sections_from_text: returned list
    heading_sections,     \* extract_sections_from_text: sections after the heading strategy
    user_input,           \* __main__: the three answers typed by the user
    folder,               \* file system: Config.FOLDER_PATH (exists, listing)
    input_data,           \* __main__: input_data (documents, persona, task, description)
    doc_i,                \* load_documents_with_sections: index of the next doc_info
    sections,             \* __main__: sections / find_relevant_sections: sections
    top_n,                \* find_relevant_sections: argument top_n
    min_similarity,       \* find_relevant_sections: argument min_similarity
    similarities,         \* find_relevant_sections: similarities (<<>> before the call)
    relevant_sections,    \* __main__: relevant_sections
    output_data,          \* __main__: output_data (<<>> before create_output_json)
    output_file,          \* file system: content of Config.OUTPUT_FILE (<<>> unwritten)
    ranker_calls,         \* number of calls of find_relevant_sections
    encoder_calls,        \* number of model.encode calls
    console               \* diagnostics printed by the loader and by __main__

vars == <<pc, text, page_number, min_section_length, page_sections,
          heading_sections, user_input, folder, input_data, doc_i, sections, top_n,
          min_similarity, similarities, relevant_sections, output_data,
          output_file, ranker_calls, encoder_calls, console>>

(***************************************************************************)
(* Program constants: class Config (update_config is never called, so the  *)
(* attributes keep these values), and the literals of the extractor.       *)
(***************************************************************************)
MIN_SECTION_LENGTH == 50
MAX_REFINED_TEXT_LENGTH == 1000
TOP_N_SECTIONS == 5
\* 0.1 in hundredths
MIN_SIMILARITY_THRESHOLD == 10
MAX_HEADING_LENGTH == 200
MAX_HEADING_WORDS == 10
\* word limit of the colon and bullet heading patterns
SHORT_HEADING_WORDS == 8
\* words kept in a paragraph-derived title
PARAGRAPH_TITLE_WORDS == 8
\* words kept in a whole-page title
PAGE_TITLE_WORDS == 10

(***************************************************************************)
(* Characters and the str methods the code uses.                           *)
(***************************************************************************)
UpperLetters == <<"A","B","C","D","E","F","G","H","I","J","K","L","M",
                  "N","O","P","Q","R","S","T","U","V","W","X","Y","Z">>
LowerLetters == <<"a","b","c","d","e","f","g","h","i","j","k","l","m",
                  "n","o","p","q","r","s","t","u","v","w","x","y","z">>
UpperSet == {UpperLetters[i] : i \in 1..26}
LowerSet == {LowerLetters[i] : i \in 1..26}
Digits == {"0","1","2","3","4","5","6","7","8","9"}
Whitespace == {" ", "\n", "\t", "\r"}
SentenceEnd == {".", "!", "?"}
\* the character U+2022 (modules are ASCII: the bullet is named, not written)
Bullet == "U+2022"
BulletGlyphs == {Bullet, "-", "*"}

Min(S) == CHOOSE x \in S : \A y \in S : x <= y
Max(S) == CHOOSE x \in S : \A y \in S : x >= y

\* str.strip(): without the leading and trailing whitespace
Strip(s) ==
    LET keep == {i \in 1..Len(s) : s[i] \notin Whitespace}
    IN  IF keep = {} THEN <<>> ELSE SubSeq(s, Min(keep), Max(keep))

\* first index >= from where sep occurs in s, or 0
FindFrom(s, sep, from) ==
    LET hits == {i \in from..(Len(s) - Len(sep) + 1) :
                    \A k \in 1..Len(sep) : s[i + k - 1] = sep[k]}
    IN  IF hits = {} THEN 0 ELSE Min(hits)

\* str.split(sep): the pieces between the non-overlapping occurrences of sep,
\* found left to right
RECURSIVE SplitFrom(_, _, _)
SplitFrom(s, sep, from) ==
    LET at == FindFrom(s, sep, from)
    IN  IF at = 0
        THEN <<SubSeq(s, from, Len(s))>>
        ELSE <<SubSeq(s, from, at - 1)>> \o SplitFrom(s, sep, at + Len(sep))

Split(s, sep) == SplitFrom(s, sep, 1)

\* str.split(): the maximal runs of non-whitespace characters
RECURSIVE WordsFrom(_, _)
WordsFrom(s, from) ==
    LET starts == {i \in from..Len(s) : s[i] \notin Whitespace}
    IN  IF starts = {}
        THEN <<>>
        ELSE LET b == Min(starts)
                 stops == {i \in b..Len(s) : s[i] \in Whitespace}
                 e == IF stops = {} THEN Len(s) + 1 ELSE Min(stops)
             IN  <<SubSeq(s, b, e - 1)>> \o WordsFrom(s, e)

Words(s) == WordsFrom(s, 1)

\* sep.join(parts)
RECURSIVE Join(_, _)
Join(parts, sep) ==
    IF parts = <<>> THEN <<>>
    ELSE IF Len(parts) = 1 THEN parts[1]
    ELSE parts[1] \o sep \o Join(Tail(parts), sep)

\* parts[:n] for n >= 0
Take(parts, n) == SubSeq(parts, 1, IF n < Len(parts) THEN n ELSE Len(parts))

\* str.isupper(): some cased character, and no lower-case one
IsUpper(s) ==
    /\ \E i \in 1..Len(s) : s[i] \in UpperSet
    /\ \A i \in 1..Len(s) : s[i] \notin LowerSet

\* str.endswith(suffix)
EndsWith(s, suffix) ==
    /\ Len(s) >= Len(suffix)
    /\ SubSeq(s, Len(s) - Len(suffix) + 1, Len(s)) = suffix

\* str.lower()
LowerChar(c) ==
    IF c \in UpperSet
    THEN LowerLetters[CHOOSE i \in 1..26 : UpperLetters[i] = c]
    ELSE c

Lower(s) == [i \in 1..Len(s) |-> LowerChar(s[i])]

\* index of the first character at or after from that is not in class, or Len+1
SkipClass(s, from, class) ==
    LET rest == {i \in from..Len(s) : s[i] \notin class}
    IN  IF rest = {} THEN Len(s) + 1 ELSE Min(rest)

(***************************************************************************)
(* The heading patterns of extract_sections_from_text.                     *)
(***************************************************************************)
\* re.match(r'^[A-Z][^.!?]*[^.!?]$', line)
MatchTitleCase(line) ==
    /\ Len(line) >= 2
    /\ line[1] \in UpperSet
    /\ \A i \in 2..Len(line) : line[i] \notin SentenceEnd

\* re.match(r'^\d+[\.\)]\s*[A-Z]', line)
MatchNumbered(line) ==
    LET d == SkipClass(line, 1, Digits)
        c == SkipClass(line, d + 1, Whitespace)
    IN  /\ d > 1
        /\ d <= Len(line)
        /\ line[d] \in {".", ")"}
        /\ c <= Len(line)
        /\ line[c] \in UpperSet

\* re.match(r'^[<U+2022>\-\*]\s*[A-Z]', line)
MatchBullet(line) ==
    LET c == SkipClass(line, 2, Whitespace)
    IN  /\ Len(line) >= 1
        /\ line[1] \in BulletGlyphs
        /\ c <= Len(line)
        /\ line[c] \in UpperSet

\* is_heading of one stripped, non-empty line
IsHeading(line) ==
    /\ Len(line) < MAX_HEADING_LENGTH
    /\ \/ IsUpper(line) /\ Len(line) > 3
       \/ MatchTitleCase(line) /\ Len(Words(line)) <= MAX_HEADING_WORDS
       \/ EndsWith(line, <<":">>) /\ Len(Words(line)) <= SHORT_HEADING_WORDS
       \/ MatchNumbered(line)
       \/ MatchBullet(line) /\ Len(Words(line)) <= SHORT_HEADING_WORDS

(***************************************************************************)
(* extract_sections_from_text                                              *)
(***************************************************************************)
Section(title, content, page) ==
    [title |-> title, content |-> content, page_number |-> page]

\* KeepHeadingSection measuring the buffer with its trailing space
KeepHeadingSectionUnstripped(current_title, current_section, min_length) ==
    /\ current_title # <<>>
    /\ current_section # <<>>
    /\ Len(current_section) >= min_length

\* KeepHeadingSection without the test of the title
KeepHeadingSectionUntitled(current_title, current_section, min_length) ==
    /\ current_section # <<>>
    /\ Len(Strip(current_section)) >= min_length

\* the test guarding both appends of the heading strategy
KeepHeadingSection(current_title, current_section, min_length) ==
    /\ current_title # <<>>
    /\ current_section # <<>>
    /\ Len(Strip(current_section)) >= min_length

\* the append of the heading strategy, when its guard holds
FlushHeading(found, current_title, current_section, page, min_length) ==
    IF KeepHeadingSection(current_title, current_section, min_length)
    THEN Append(found, Section(current_title, Strip(current_section), page))
    ELSE found

\* the loop over lines: st is (sections, current_title, current_section)
RECURSIVE ScanLines(_, _, _, _, _)
ScanLines(lines, i, st, page, min_length) ==
    IF i > Len(lines)
    THEN st
    ELSE LET line == Strip(lines[i])
         IN  IF line = <<>>
             THEN ScanLines(lines, i + 1, st, page, min_length)
             ELSE IF IsHeading(line)
             THEN ScanLines(lines, i + 1,
                      [sections |-> FlushHeading(st.sections, st.current_title,
                                                 st.current_section, page, min_length),
                       current_title |-> line,
                       current_section |-> <<>>],
                      page, min_length)
             ELSE ScanLines(lines, i + 1,
                      [st EXCEPT !.current_section = @ \o line \o <<" ">>],
                      page, min_length)

\* strategy "heading": the scan, then the flush of the last open section
HeadingSections(txt, page, min_length) ==
    LET st == ScanLines(Split(txt, <<"\n">>), 1,
                        [sections |-> <<>>, current_title |-> <<>>,
                         current_section |-> <<>>],
                        page, min_length)
    IN  FlushHeading(st.sections, st.current_title, st.current_section,
                     page, min_length)

\* Paragraphs keeping each paragraph's surrounding whitespace
ParagraphsUnstripped(txt) ==
    SelectSeq(Split(txt, <<"\n", "\n">>), LAMBDA p : Strip(p) # <<>>)

\* paragraphs = [p.strip() for p in text.split('\n\n') if p.strip()]
Paragraphs(txt) ==
    LET parts == Split(txt, <<"\n", "\n">>)
        stripped == [i \in 1..Len(parts) |-> Strip(parts[i])]
    IN  SelectSeq(stripped, LAMBDA p : p # <<>>)

\* ' '.join(words[:n]) + ('...' if len(words) > n else '')
SynthTitle(s, n) ==
    LET words == Words(s)
    IN  Join(Take(words, n), <<" ">>)
            \o (IF Len(words) > n THEN <<".", ".", ".">> ELSE <<>>)

\* KeepParagraph with a strict comparison
KeepParagraphStrict(paragraph, min_length) == Len(paragraph) > min_length

\* the test guarding the append of the paragraph strategy
KeepParagraph(paragraph, min_length) == Len(paragraph) >= min_length

\* strategy "paragraph": the loop over paragraphs
RECURSIVE ParagraphSections(_, _, _, _)
ParagraphSections(paragraphs, i, page, min_length) ==
    IF i > Len(paragraphs)
    THEN <<>>
    ELSE (IF KeepParagraph(paragraphs[i], min_length)
          THEN <<Section(SynthTitle(paragraphs[i], PARAGRAPH_TITLE_WORDS),
                         paragraphs[i], page)>>
          ELSE <<>>)
         \o ParagraphSections(paragraphs, i + 1, page, min_length)

\* WholePageSections used only for a page without any paragraph
WholePageSectionsNoParagraph(txt, page, min_length) ==
    IF SelectSeq(Split(txt, <<"\n", "\n">>), LAMBDA p : Strip(p) # <<>>) = <<>>
       /\ Len(Strip(txt)) >= min_length
    THEN <<Section(SynthTitle(Strip(txt), PAGE_TITLE_WORDS), Strip(txt), page)>>
    ELSE <<>>

\* strategy "whole page": the section appended when nothing else was found
WholePageSections(txt, page, min_length) ==
    IF Len(Strip(txt)) >= min_length
    THEN <<Section(SynthTitle(Strip(txt), PAGE_TITLE_WORDS), Strip(txt), page)>>
    ELSE <<>>

\* min_section_length=None takes Config.MIN_SECTION_LENGTH (None is <<>>)
ResolveMinLength(arg) ==
    IF arg = <<>> THEN MIN_SECTION_LENGTH ELSE arg[1]

\* strategies "paragraph" and "whole page", applied to the sections found by
\* the heading strategy
FallbackSections(txt, page, min_length, byHeading) ==
    LET paragraphs == Paragraphs(txt)
        byParagraph == IF byHeading = <<>> /\ paragraphs # <<>>
                       THEN ParagraphSections(paragraphs, 1, page, min_length)
                       ELSE byHeading
    IN  IF byParagraph = <<>>
        THEN WholePageSections(txt, page, min_length)
        ELSE byParagraph

extract_sections_from_text(txt, page, arg) ==
    LET min_length == ResolveMinLength(arg)
    IN  FallbackSections(txt, page, min_length,
                         HeadingSections(txt, page, min_length))

(***************************************************************************)
(* Inputs of the extractor: pages made of at most MaxLines lines, each one *)
(* of the sample lines below, joined by newlines.                          *)
(***************************************************************************)
MaxLines == 3
MaxPageNumber == 1

Rep(c, n) == [i \in 1..n |-> c]

LineBlank == <<>>
\* plain text with a trailing space: 5 characters once stripped
LinePlain == <<"a", "b", " ", "c", "d", " ">>
\* upper case, more than 3 characters
LineUpper == <<"A", "B", "C", "D">>
\* capitalised, no sentence punctuation, 2 words
LineTitle == <<"A", "b", " ", "c", "d">>
\* capitalised sentence with its full stop: no heading
LineSentence == <<"A", "b", " ", "c", "d", ".">>
\* ends with a colon, 1 word
LineColon == <<"a", "b", ":">>
\* numbered
LineNumbered == <<"1", ".", " ", "A", "b", ".">>
\* bullet, 2 words
LineBullet == <<"-", " ", "A", "b", ".">>
\* 9 words and a final colon: too many words for the colon pattern
LineNineWords == <<"a", " ", "b", " ", "c", " ", "d", " ", "e", " ", "f", " ", "g", " ", "h", " ", "i", ":">>
\* 11 words, capitalised, no punctuation: too many words for the title pattern
LineElevenWords == <<"A", " ", "b", " ", "c", " ", "d", " ", "e", " ", "f", " ", "g", " ", "h", " ", "i", " ", "j", " ", "k">>
\* upper case but MAX_HEADING_LENGTH characters long: too long for a heading
LineLong == Rep("A", MAX_HEADING_LENGTH)

LineSamples == {LineBlank, LinePlain, LineUpper, LineTitle, LineSentence,
                LineColon, LineNumbered, LineBullet, LineNineWords,
                LineElevenWords}

RECURSIVE LineSeqs(_)
LineSeqs(n) ==
    IF n = 0 THEN {<<>>}
    ELSE LET shorter == LineSeqs(n - 1)
         IN  shorter \cup {Append(ls, l) : ls \in {x \in shorter : Len(x) = n - 1},
                                          l \in LineSamples}

\* the over-long line between a blank line, a heading or plain text
LongLinePages ==
    {Join(<<before, LineLong, after>>, <<"\n">>) :
        before \in {LineBlank, LineUpper, LinePlain},
        after \in {LineBlank, LineUpper, LinePlain}}

PageTexts == {Join(ls, <<"\n">>) : ls \in LineSeqs(MaxLines)} \cup LongLinePages

\* thresholds at and just above the lengths of the sample lines, and None
MinLengthArgs == {<<>>, <<0>>, <<5>>, <<6>>, <<22>>}

(***************************************************************************)
(* Values of the pipeline variables while a single function is studied.    *)
(***************************************************************************)
NoUserInput == [role |-> <<>>, task |-> <<>>, description |-> <<>>]
NoFolder == [exists |-> FALSE, listing |-> <<>>]
\* description is a list of at most one string: empty when the key is absent
NoInputData == [documents |-> <<>>, role |-> <<>>, task |-> <<>>,
                description |-> <<>>]

PipelineIdle ==
    /\ user_input = NoUserInput
    /\ folder = NoFolder
    /\ input_data = NoInputData
    /\ doc_i = 0
    /\ sections = <<>>
    /\ top_n = TOP_N_SECTIONS
    /\ min_similarity = MIN_SIMILARITY_THRESHOLD
    /\ similarities = <<>>
    /\ relevant_sections = <<>>
    /\ output_data = <<>>
    /\ output_file = <<>>
    /\ ranker_calls = 0
    /\ encoder_calls = 0
    /\ console = <<>>

pipelineVars == <<user_input, folder, input_data, doc_i, sections, top_n,
                  min_similarity, similarities, relevant_sections, output_data,
                  output_file, ranker_calls, encoder_calls, console>>

extractVars == <<text, page_number, min_section_length, page_sections,
                 heading_sections>>

(***************************************************************************)
(* SpecExtract: one call of extract_sections_from_text.                    *)
(***************************************************************************)
InitExtract ==
    /\ pc = "extract"
    /\ text \in PageTexts
    /\ page_number \in 1..MaxPageNumber
    /\ min_section_length \in MinLengthArgs
    /\ page_sections = <<>>
    /\ heading_sections = <<>>
    /\ PipelineIdle

ExtractSections ==
    /\ pc = "extract"
    /\ heading_sections' = HeadingSections(text, page_number,
                                           ResolveMinLength(min_section_length))
    /\ page_sections' = FallbackSections(text, page_number,
                                         ResolveMinLength(min_section_length),
                                         heading_sections')
    /\ pc' = "extracted"
    /\ UNCHANGED <<text, page_number, min_section_length>>
    /\ UNCHANGED pipelineVars

NextExtract == ExtractSections

SpecExtract == InitExtract /\ [][NextExtract]_vars

(***************************************************************************)
(* Properties of extract_sections_from_text, under SpecExtract.            *)
(***************************************************************************)
Extracted == pc = "extracted"
EffectiveMinLength == ResolveMinLength(min_section_length)
\* no line of the page is classified as a heading
NoHeadingLine ==
    LET lines == Split(text, <<"\n">>)
    IN  \A i \in 1..Len(lines) :
           LET line == Strip(lines[i])
           IN  line = <<>> \/ ~IsHeading(line)
NoParagraphBreak == FindFrom(text, <<"\n", "\n">>, 1) = 0
LongEnoughParagraphs ==
    SelectSeq(Paragraphs(text), LAMBDA p : Len(p) >= EffectiveMinLength)
Ellipsis == <<".", ".", ".">>

\* s is the first n words of the string of, joined by single spaces, followed
\* by the ellipsis exactly when of has more than n words
IsTitleOf(s, of, n) ==
    LET w == Words(of)
    IN  IF Len(w) > n
        THEN s = Join(SubSeq(w, 1, n), <<" ">>) \o Ellipsis
        ELSE s = Join(w, <<" ">>)

\* C1: every section returned by extract_sections_from_text, whichever
\* strategy produced it, has a content whose trimmed length is at least
\* min_length.
C1_ContentAtLeastMinLength ==
    Extracted =>
        \A i \in 1..Len(page_sections) :
            Len(Strip(page_sections[i].content)) >= EffectiveMinLength

\* a heading-derived section whose content is exactly min_length long
C1_Witness ==
    /\ Extracted
    /\ EffectiveMinLength > 0
    /\ \E i \in 1..Len(page_sections) :
          /\ page_sections[i].title = LineUpper
          /\ Len(page_sections[i].content) = EffectiveMinLength

\* C2 as stated: a page of length >= min_length without heading line and
\* without paragraph break yields exactly one section, the whole page, whose
\* title is the first 10 words, with the ellipsis exactly when there are more.
C2_WholePageSection ==
    (Extracted /\ Len(text) >= EffectiveMinLength
       /\ NoParagraphBreak /\ NoHeadingLine)
    => /\ Len(page_sections) = 1
       /\ page_sections[1].content = Strip(text)
       /\ IsTitleOf(page_sections[1].title, text, 10)

\* C2 amended: a page whose trimmed length is >= min_length, without heading
\* line and without paragraph break, yields exactly one section; its content
\* is the trimmed page and its title is the first 8 words, with the ellipsis
\* exactly when there are more than 8.
C2_SingleParagraphSection ==
    (Extracted /\ Len(Strip(text)) >= EffectiveMinLength
       /\ NoParagraphBreak /\ NoHeadingLine)
    => /\ Len(page_sections) = 1
       /\ page_sections[1].content = Strip(text)
       /\ IsTitleOf(page_sections[1].title, text, 8)

\* such a page of more than 8 words, with whitespace to trim
C2_Witness ==
    /\ Extracted
    /\ Len(Strip(text)) >= EffectiveMinLength
    /\ NoParagraphBreak
    /\ NoHeadingLine
    /\ Len(Words(text)) > 8
    /\ Len(text) > Len(Strip(text))
    /\ Len(page_sections) = 1

\* C3: on a page without heading line and with a paragraph of length >=
\* min_length, the result is one section per such paragraph, in page order,
\* with the paragraph as content and its first 8 words (ellipsis exactly when
\* there are more) as title: never empty, never heading-derived or whole-page.
C3_ParagraphSections ==
    (Extracted /\ NoHeadingLine /\ LongEnoughParagraphs # <<>>)
    => /\ Len(page_sections) = Len(LongEnoughParagraphs)
       /\ \A i \in 1..Len(page_sections) :
             /\ page_sections[i].content = LongEnoughParagraphs[i]
             /\ IsTitleOf(page_sections[i].title, LongEnoughParagraphs[i], 8)
             /\ page_sections[i].page_number = page_number

\* a page with a paragraph too short, followed by one of more than 8 words
\* that is kept
C3_Witness ==
    /\ Extracted
    /\ NoHeadingLine
    /\ Len(Paragraphs(text)) = 2
    /\ Len(Paragraphs(text)[1]) < EffectiveMinLength
    /\ Len(page_sections) = 1
    /\ Len(Words(page_sections[1].content)) > 8

\* C4: a page whose trimmed text has length >= min_length yields at least one
\* section, whatever its headings and paragraphs.
C4_NonTrivialPageYieldsSection ==
    (Extracted /\ Len(Strip(text)) >= EffectiveMinLength)
    => page_sections # <<>>

\* a page with a heading, whose heading span and paragraphs are all too short
C4_Witness ==
    /\ Extracted
    /\ Len(Strip(text)) >= EffectiveMinLength
    /\ ~NoHeadingLine
    /\ Paragraphs(text) # <<>>
    /\ LongEnoughParagraphs = <<>>
    /\ Len(page_sections) = 1
    /\ page_sections[1].content = Strip(text)

\* the lines of the page, each one trimmed
TrimmedLines ==
    LET lines == Split(text, <<"\n">>)
    IN  [i \in 1..Len(lines) |-> Strip(lines[i])]

\* the positions of the heading lines, in page order
HeadingPositions(lines) ==
    SelectSeq([i \in 1..Len(lines) |-> i],
              LAMBDA i : lines[i] # <<>> /\ IsHeading(lines[i]))

\* the non-blank lines after the k-th heading and before the next heading (or
\* the end of the page), joined by single spaces
SpanOfHeading(lines, heads, k) ==
    LET last == IF k < Len(heads) THEN heads[k + 1] - 1 ELSE Len(lines)
        between == SubSeq(lines, heads[k] + 1, last)
    IN  Join(SelectSeq(between, LAMBDA l : l # <<>>), <<" ">>)

\* one section per heading whose span satisfies Kept(span), in page order
SectionsOfSpans(Kept(_)) ==
    LET lines == TrimmedLines
        heads == HeadingPositions(lines)
        spans == [k \in 1..Len(heads) |-> SpanOfHeading(lines, heads, k)]
        kept == SelectSeq([k \in 1..Len(heads) |-> k], LAMBDA k : Kept(spans[k]))
    IN  [j \in 1..Len(kept) |->
            Section(lines[heads[kept[j]]], spans[kept[j]], page_number)]

LongEnoughSpan(span) == Len(Strip(span)) >= EffectiveMinLength
NonEmptyLongEnoughSpan(span) == span # <<>> /\ LongEnoughSpan(span)

\* C11 as stated: the heading strategy emits a section for a heading exactly
\* when the non-heading lines up to the next heading (or the end of the page),
\* joined by single spaces, have trimmed length >= min_length; the section has
\* the heading as title and that text as content, so that the lines before the
\* first heading belong to no section.
C11_SectionIffSpanLongEnough ==
    Extracted => heading_sections = SectionsOfSpans(LongEnoughSpan)

\* C11 amended: the heading strategy emits a section for a heading exactly
\* when the non-heading lines up to the next heading (or the end of the page),
\* joined by single spaces, are non-empty and have trimmed length >=
\* min_length; the lines before the first heading belong to no section, and a
\* heading directly followed by a heading yields no section, whatever
\* min_length is.
C11_SectionIffSpanNonEmptyAndLongEnough ==
    Extracted => heading_sections = SectionsOfSpans(NonEmptyLongEnoughSpan)

\* with min_length 0: a heading directly followed by a second heading, of which
\* only the second one, whose span is not empty, yields a section
C11_Witness ==
    /\ Extracted
    /\ EffectiveMinLength = 0
    /\ LET lines == TrimmedLines
           heads == HeadingPositions(lines)
       IN  /\ Len(heads) = 2
           /\ heads[2] = heads[1] + 1
           /\ Len(heading_sections) = 1
           /\ heading_sections[1].title = lines[heads[2]]
           /\ heading_sections[1].content # <<>>

(***************************************************************************)
(* find_relevant_sections                                                 *)
(***************************************************************************)
\* combined_text = f"{section['title']} {section['content']}"
combined_text(section) == section.title \o <<" ">> \o section.content

\* MeetsThreshold with a strict comparison
MeetsThresholdStrict(similarity, threshold) == similarity > threshold

\* float(similarity) >= min_similarity
MeetsThreshold(similarity, threshold) == similarity >= threshold

\* the loop building scored_sections: enumerate(zip(sections, similarities))
RECURSIVE ScoreSections(_, _, _, _)
ScoreSections(secs, sims, i, threshold) ==
    IF i > Len(secs)
    THEN <<>>
    ELSE (IF MeetsThreshold(sims[i], threshold)
          THEN <<[section |-> secs[i], similarity |-> sims[i], index |-> i - 1]>>
          ELSE <<>>)
         \o ScoreSections(secs, sims, i + 1, threshold)

\* InsertBySimilarity placing an entry before the entries of equal similarity
InsertBeforeEqual(sorted, x) ==
    LET k == Cardinality({j \in 1..Len(sorted) :
                             sorted[j].similarity > x.similarity})
    IN  SubSeq(sorted, 1, k) \o <<x>> \o SubSeq(sorted, k + 1, Len(sorted))

\* one step of the stable descending sort: x goes after every entry whose
\* similarity is not smaller
InsertBySimilarity(sorted, x) ==
    LET k == Cardinality({j \in 1..Len(sorted) :
                             sorted[j].similarity >= x.similarity})
    IN  SubSeq(sorted, 1, k) \o <<x>> \o SubSeq(sorted, k + 1, Len(sorted))

\* scored_sections.sort(key=similarity, reverse=True): list.sort is stable, and
\* with reverse=True equal keys keep their original order
RECURSIVE SortBySimilarity(_, _)
SortBySimilarity(scored, n) ==
    IF n = 0 THEN <<>>
    ELSE InsertBySimilarity(SortBySimilarity(scored, n - 1), scored[n])

\* SliceTo keeping one entry too many
SliceToInclusive(seq, n) ==
    IF n >= 0
    THEN SubSeq(seq, 1, IF n + 1 < Len(seq) THEN n + 1 ELSE Len(seq))
    ELSE SubSeq(seq, 1, IF Len(seq) + n > 0 THEN Len(seq) + n ELSE 0)

\* seq[:n]: the first n entries, or all but the last -n when n is negative
SliceTo(seq, n) ==
    IF n >= 0
    THEN SubSeq(seq, 1, IF n < Len(seq) THEN n ELSE Len(seq))
    ELSE SubSeq(seq, 1, IF Len(seq) + n > 0 THEN Len(seq) + n ELSE 0)

\* the body of find_relevant_sections once the similarities are known
RankSections(secs, sims, n, threshold) ==
    LET scored == ScoreSections(secs, sims, 1, threshold)
    IN  SliceTo(SortBySimilarity(scored, Len(scored)), n)

(***************************************************************************)
(* create_output_json                                                      *)
(***************************************************************************)
\* re.sub(r'\s+', ' ', s): every run of whitespace becomes one space
CollapseWhitespace(s) ==
    LET positions == [i \in 1..Len(s) |-> i]
        kept == SelectSeq(positions,
                    LAMBDA i : s[i] \notin Whitespace
                               \/ i = 1 \/ s[i - 1] \notin Whitespace)
    IN  [k \in 1..Len(kept) |->
            IF s[kept[k]] \in Whitespace THEN " " ELSE s[kept[k]]]

\* section['content'][:Config.MAX_REFINED_TEXT_LENGTH].strip(), then collapsed
RefinedText(content) ==
    CollapseWhitespace(Strip(Take(content, MAX_REFINED_TEXT_LENGTH)))

\* ImportanceRank counting from 0
ImportanceRankFromZero(position) == position - 1

\* enumerate(relevant_sections, 1): the rank of the entry at a 1-based position
ImportanceRank(position) == position

ExtractedSections(relevant) ==
    [i \in 1..Len(relevant) |->
        [document |-> relevant[i].section.document,
         section_title |-> relevant[i].section.title,
         importance_rank |-> ImportanceRank(i),
         page_number |-> relevant[i].section.page_number]]

SubsectionAnalysis(relevant) ==
    [i \in 1..Len(relevant) |->
        [document |-> relevant[i].section.document,
         refined_text |-> RefinedText(relevant[i].section.content),
         page_number |-> relevant[i].section.page_number]]

\* metadata; description (a list of at most one string) is copied when present
Metadata(data, now) ==
    [input_documents |-> [i \in 1..Len(data.documents) |->
                             data.documents[i].filename],
     persona |-> data.role,
     job_to_be_done |-> data.task,
     processing_timestamp |-> now,
     description |-> data.description]

create_output_json(data, relevant, now) ==
    [metadata |-> Metadata(data, now),
     extracted_sections |-> ExtractedSections(relevant),
     subsection_analysis |-> SubsectionAnalysis(relevant)]

(***************************************************************************)
(* The two calls as actions, shared by the pipeline and by SpecRank.       *)
(***************************************************************************)
\* cosine similarities in hundredths: below, at and above the threshold
SimilaritySamples == {-5, 10, 20}
\* values of datetime.now()
ClockSamples == {"T1", "T2"}

\* find_relevant_sections with an empty pool: [] without any encode call
FindRelevantEmpty ==
    /\ pc = "rank"
    /\ sections = <<>>
    /\ ranker_calls' = ranker_calls + 1
    /\ relevant_sections' = <<>>
    /\ pc' = "assemble"
    /\ UNCHANGED <<user_input, folder, input_data, doc_i, sections, top_n,
                   min_similarity, similarities, output_data, output_file,
                   encoder_calls, console>>
    /\ UNCHANGED extractVars

\* find_relevant_sections: the encoder gives equal texts equal similarities
FindRelevant ==
    /\ pc = "rank"
    /\ sections # <<>>
    /\ \E encode \in [{combined_text(sections[i]) : i \in 1..Len(sections)}
                        -> SimilaritySamples] :
          LET sims == [i \in 1..Len(sections) |->
                          encode[combined_text(sections[i])]]
          IN  /\ similarities' = sims
              /\ relevant_sections' =
                     RankSections(sections, sims, top_n, min_similarity)
    /\ ranker_calls' = ranker_calls + 1
    /\ encoder_calls' = encoder_calls + 2
    /\ pc' = "assemble"
    /\ UNCHANGED <<user_input, folder, input_data, doc_i, sections, top_n,
                   min_similarity, output_data, output_file, console>>
    /\ UNCHANGED extractVars

CreateOutput ==
    /\ pc = "assemble"
    /\ \E now \in ClockSamples :
          output_data' = <<create_output_json(input_data, relevant_sections, now)>>
    /\ pc' = "write"
    /\ UNCHANGED <<user_input, folder, input_data, doc_i, sections, top_n,
                   min_similarity, similarities, relevant_sections,
                   output_file, ranker_calls, encoder_calls, console>>
    /\ UNCHANGED extractVars

(***************************************************************************)
(* SpecRank: one call of find_relevant_sections followed by one call of    *)
(* create_output_json on its result.                                       *)
(***************************************************************************)
MaxPool == 3
MaxTopN == 2

NameA == <<"a", ".", "p", "d", "f">>
NameB == <<"b", ".", "p", "d", "f">>

SectionSamples ==
    {[title |-> <<"A", "b">>, content |-> <<"c", "d", " ", "e", "f">>,
      page_number |-> 1, document |-> NameA],
     \* the same combined text as the section above
     [title |-> <<"A", "b", " ", "c", "d">>, content |-> <<"e", "f">>,
      page_number |-> 2, document |-> NameA],
     [title |-> <<"G", "h">>, content |-> <<" ", "i", "j", " ", "\n", " ", "k", "l">>,
      page_number |-> 1, document |-> NameB],
     [title |-> <<"M", "n">>, content |-> <<"o", "p">>,
      page_number |-> 3, document |-> NameB]}

RECURSIVE Pools(_)
Pools(n) ==
    IF n = 0 THEN {<<>>}
    ELSE LET shorter == Pools(n - 1)
         IN  shorter \cup {Append(q, x) : q \in {y \in shorter : Len(y) = n - 1},
                                         x \in SectionSamples}

\* with and without challenge_info.description
InputDataSamples ==
    {[documents |-> <<[filename |-> NameA], [filename |-> NameB]>>,
      role |-> <<"Q", "A">>, task |-> <<"G", "o">>, description |-> <<<<"X", "y">>>>],
     [documents |-> <<[filename |-> NameB]>>,
      role |-> <<"Q", "A">>, task |-> <<"G", "o">>, description |-> <<>>]}

ExtractIdle ==
    /\ text = <<>>
    /\ page_number = 0
    /\ min_section_length = <<>>
    /\ page_sections = <<>>
    /\ heading_sections = <<>>

InitRank ==
    /\ pc = "rank"
    /\ sections \in Pools(MaxPool)
    /\ top_n \in -1..MaxTopN
    /\ min_similarity \in {MIN_SIMILARITY_THRESHOLD, 20}
    /\ input_data \in InputDataSamples
    /\ user_input = NoUserInput
    /\ folder = NoFolder
    /\ doc_i = 0
    /\ similarities = <<>>
    /\ relevant_sections = <<>>
    /\ output_data = <<>>
    /\ output_file = <<>>
    /\ ranker_calls = 0
    /\ encoder_calls = 0
    /\ console = <<>>
    /\ ExtractIdle

NextRank ==
    \/ FindRelevantEmpty
    \/ FindRelevant
    \/ CreateOutput

SpecRank == InitRank /\ [][NextRank]_vars

(***************************************************************************)
(* Properties of find_relevant_sections and create_output_json, under      *)
(* SpecRank.                                                               *)
(***************************************************************************)
Ranked == ranker_calls > 0 /\ pc \in {"assemble", "write", "done"}
\* 1-based positions in the pool of the sections that reach the threshold
EligiblePositions ==
    {i \in 1..Len(similarities) : similarities[i] >= min_similarity}
\* 1-based positions in the pool of the returned entries
ReturnedPositions ==
    {relevant_sections[j].index + 1 : j \in 1..Len(relevant_sections)}

\* C5: no returned entry has a similarity below min_similarity, and a section
\* whose similarity equals min_similarity is eligible: it is returned unless
\* the result is full.
C5_ThresholdInclusive ==
    Ranked =>
        /\ \A j \in 1..Len(relevant_sections) :
              relevant_sections[j].similarity >= min_similarity
        /\ \A i \in 1..Len(similarities) :
              (similarities[i] = min_similarity
                 /\ Len(relevant_sections) < top_n)
              => i \in ReturnedPositions

\* a section exactly at the threshold is returned and another one is dropped
C5_Witness ==
    /\ Ranked
    /\ \E j \in 1..Len(relevant_sections) :
          relevant_sections[j].similarity = min_similarity
    /\ \E i \in 1..Len(similarities) : similarities[i] < min_similarity

\* C6: for top_n >= 0 and k eligible sections the result has min(top_n, k)
\* entries, all distinct eligible sections of the pool with their similarity,
\* and each returned entry is at least as similar as every eligible section
\* left out.
C6_TopNHighest ==
    (Ranked /\ top_n >= 0) =>
        /\ Len(relevant_sections) =
               (IF top_n < Cardinality(EligiblePositions)
                THEN top_n ELSE Cardinality(EligiblePositions))
        /\ Cardinality(ReturnedPositions) = Len(relevant_sections)
        /\ ReturnedPositions \subseteq EligiblePositions
        /\ \A j \in 1..Len(relevant_sections) :
              LET e == relevant_sections[j]
              IN  /\ e.section = sections[e.index + 1]
                  /\ e.similarity = similarities[e.index + 1]
                  /\ \A i \in EligiblePositions \ ReturnedPositions :
                        e.similarity >= similarities[i]

\* more eligible sections than top_n, one left out being strictly less
\* similar than a returned one, and one section below the threshold
C6_Witness ==
    /\ Ranked
    /\ top_n >= 1
    /\ Cardinality(EligiblePositions) > top_n
    /\ Cardinality(EligiblePositions) < Len(sections)
    /\ \E j \in 1..Len(relevant_sections) :
          \E i \in EligiblePositions \ ReturnedPositions :
              relevant_sections[j].similarity > similarities[i]

\* C7: the result is ordered by similarity descending, entries of equal
\* similarity by ascending pool index; of the sections tied across the top_n
\* cut, the ones of lower index are kept.
C7_OrderAndTies ==
    Ranked =>
        /\ \A j, k \in 1..Len(relevant_sections) :
              j < k =>
                \/ relevant_sections[j].similarity > relevant_sections[k].similarity
                \/ /\ relevant_sections[j].similarity = relevant_sections[k].similarity
                   /\ relevant_sections[j].index < relevant_sections[k].index
        /\ \A j \in 1..Len(relevant_sections) :
              \A i \in EligiblePositions \ ReturnedPositions :
                  similarities[i] = relevant_sections[j].similarity
                  => relevant_sections[j].index < i - 1

\* three tied sections and a cut after the second
C7_Witness ==
    /\ Ranked
    /\ Len(relevant_sections) >= 2
    /\ relevant_sections[1].similarity = relevant_sections[2].similarity
    /\ \E i \in EligiblePositions \ ReturnedPositions :
          similarities[i] = relevant_sections[2].similarity

\* C8: extracted_sections and subsection_analysis are as long as the ranked
\* list, their records at each position come from the section at that position
\* (same document and page_number), and importance_rank is the 1-based
\* position.
C8_ReportAligned ==
    output_data # <<>> =>
        LET extracted == output_data[1].extracted_sections
            analysis == output_data[1].subsection_analysis
        IN  /\ Len(extracted) = Len(relevant_sections)
            /\ Len(analysis) = Len(relevant_sections)
            /\ \A i \in 1..Len(relevant_sections) :
                  /\ extracted[i].document = relevant_sections[i].section.document
                  /\ analysis[i].document = relevant_sections[i].section.document
                  /\ extracted[i].page_number =
                         relevant_sections[i].section.page_number
                  /\ analysis[i].page_number =
                         relevant_sections[i].section.page_number
                  /\ extracted[i].importance_rank = i

\* a report of two sections from different documents
C8_Witness ==
    /\ output_data # <<>>
    /\ Len(output_data[1].extracted_sections) = 2
    /\ output_data[1].extracted_sections[1].document
           # output_data[1].extracted_sections[2].document
    /\ output_data[1].extracted_sections[2].importance_rank = 2

(***************************************************************************)
(* extract_text_with_pages_from_pdf and load_documents_with_sections.       *)
(* A file of the folder is a record: filename, present (os.path.exists: a   *)
(* dangling link is listed but not present), pages (the text PyMuPDF gives  *)
(* for each page) and fail_at (0, or the page at which reading raises; 1    *)
(* also stands for fitz.open raising).                                      *)
(***************************************************************************)
PdfSuffix == <<".", "p", "d", "f">>

\* the pages read before the exception, if any, that are not blank, numbered
\* from 1 and stripped
extract_text_with_pages_from_pdf(file) ==
    LET last == IF file.fail_at = 0 THEN Len(file.pages) ELSE file.fail_at - 1
        numbers == [i \in 1..last |-> i]
        kept == SelectSeq(numbers, LAMBDA i : Strip(file.pages[i]) # <<>>)
    IN  [k \in 1..Len(kept) |->
            [page_num |-> kept[k], text |-> Strip(file.pages[kept[k]])]]

\* section['document'] = filename
TagSections(found, filename) ==
    [i \in 1..Len(found) |->
        [title |-> found[i].title, content |-> found[i].content,
         page_number |-> found[i].page_number, document |-> filename]]

\* the loop over pages: the sections of pages k.. of one document
RECURSIVE PageSectionsOf(_, _, _)
PageSectionsOf(pages, k, filename) ==
    IF k > Len(pages)
    THEN <<>>
    ELSE TagSections(extract_sections_from_text(pages[k].text,
                                                pages[k].page_num, <<>>),
                     filename)
         \o PageSectionsOf(pages, k + 1, filename)

DocumentSections(file) ==
    PageSectionsOf(extract_text_with_pages_from_pdf(file), 1, file.filename)

(***************************************************************************)
(* __main__                                                                *)
(***************************************************************************)
DefaultRole == <<"A", "n", "a", "l", "y", "s", "t">>
DefaultTask == <<"A", "n", "a", "l", "y", "z", "e", " ", "a", "n", "d", " ", "s", "u", "m", "m", "a", "r", "i", "z", "e", " ", "k", "e", "y", " ", "i", "n", "f", "o", "r", "m", "a", "t", "i", "o", "n">>
DescriptionPrefix == <<"D", "o", "c", "u", "m", "e", "n", "t", " ", "a", "n", "a", "l", "y", "s", "i", "s", " ", "f", "o", "r", " ">>

\* input(...).strip(), replaced by the default when empty
OrDefault(answer, default) ==
    IF Strip(answer) = <<>> THEN default ELSE Strip(answer)

\* file.lower().endswith('.pdf') over os.listdir(folder_path)
PdfFiles == SelectSeq(folder.listing,
                      LAMBDA f : EndsWith(Lower(f.filename), PdfSuffix))

\* the file a doc_info names (file names are unique in a folder)
FileNamed(filename) ==
    CHOOSE f \in {folder.listing[i] : i \in 1..Len(folder.listing)} :
        f.filename = filename

CurrentFile == FileNamed(input_data.documents[doc_i].filename)

ReadUserInput ==
    /\ pc = "input"
    /\ LET user_role == OrDefault(user_input.role, DefaultRole)
       IN  input_data' =
               [input_data EXCEPT
                   !.role = user_role,
                   !.task = OrDefault(user_input.task, DefaultTask),
                   !.description =
                       <<OrDefault(user_input.description,
                                   DescriptionPrefix \o Lower(user_role))>>]
    /\ pc' = "folder"
    /\ UNCHANGED <<user_input, folder, doc_i, sections, top_n, min_similarity,
                   similarities, relevant_sections, output_data, output_file,
                   ranker_calls, encoder_calls, console>>
    /\ UNCHANGED extractVars

\* the folder does not exist: it is created and the run exits with status 1
CreateFolder ==
    /\ pc = "folder"
    /\ ~folder.exists
    /\ folder' = [exists |-> TRUE, listing |-> <<>>]
    /\ console' = Append(console, <<"Created folder">>)
    /\ pc' = "exit(1)"
    /\ UNCHANGED <<user_input, input_data, doc_i, sections, top_n,
                   min_similarity, similarities, relevant_sections,
                   output_data, output_file, ranker_calls, encoder_calls>>
    /\ UNCHANGED extractVars

NoPdfFiles ==
    /\ pc = "folder"
    /\ folder.exists
    /\ PdfFiles = <<>>
    /\ console' = Append(console, <<"No PDF files found">>)
    /\ pc' = "exit(1)"
    /\ UNCHANGED <<user_input, folder, input_data, doc_i, sections, top_n,
                   min_similarity, similarities, relevant_sections,
                   output_data, output_file, ranker_calls, encoder_calls>>
    /\ UNCHANGED extractVars

\* documents is built from the listing; load_documents_with_sections starts
\* (the title of a document is computed and never read: it is left out)
ListDocuments ==
    /\ pc = "folder"
    /\ folder.exists
    /\ PdfFiles # <<>>
    /\ input_data' =
           [input_data EXCEPT
               !.documents = [i \in 1..Len(PdfFiles) |->
                                 [filename |-> PdfFiles[i].filename]]]
    /\ doc_i' = 1
    /\ sections' = <<>>
    /\ pc' = "load"
    /\ UNCHANGED <<user_input, folder, top_n, min_similarity, similarities,
                   relevant_sections, output_data, output_file, ranker_calls,
                   encoder_calls, console>>
    /\ UNCHANGED extractVars

\* LoadMissing leaving the loop instead of going on with the next document
LoadMissingBreak ==
    /\ pc = "load"
    /\ doc_i <= Len(input_data.documents)
    /\ ~CurrentFile.present
    /\ console' = Append(console, <<"File not found", CurrentFile.filename>>)
    /\ doc_i' = Len(input_data.documents) + 1
    /\ UNCHANGED <<pc, user_input, folder, input_data, sections, top_n,
                   min_similarity, similarities, relevant_sections,
                   output_data, output_file, ranker_calls, encoder_calls>>
    /\ UNCHANGED extractVars

\* if not os.path.exists(path): warning, continue
LoadMissing ==
    /\ pc = "load"
    /\ doc_i <= Len(input_data.documents)
    /\ ~CurrentFile.present
    /\ console' = Append(console, <<"File not found", CurrentFile.filename>>)
    /\ doc_i' = doc_i + 1
    /\ UNCHANGED <<pc, user_input, folder, input_data, sections, top_n,
                   min_similarity, similarities, relevant_sections,
                   output_data, output_file, ranker_calls, encoder_calls>>
    /\ UNCHANGED extractVars

\* if filename.endswith('.pdf'): the sections of every page are appended
LoadPdf ==
    /\ pc = "load"
    /\ doc_i <= Len(input_data.documents)
    /\ CurrentFile.present
    /\ EndsWith(CurrentFile.filename, PdfSuffix)
    /\ sections' = sections \o DocumentSections(CurrentFile)
    /\ console' = IF CurrentFile.fail_at = 0
                  THEN console
                  ELSE Append(console,
                              <<"Error reading PDF", CurrentFile.filename>>)
    /\ doc_i' = doc_i + 1
    /\ UNCHANGED <<pc, user_input, folder, input_data, top_n, min_similarity,
                   similarities, relevant_sections, output_data, output_file,
                   ranker_calls, encoder_calls>>
    /\ UNCHANGED extractVars

\* else: warning
LoadUnsupported ==
    /\ pc = "load"
    /\ doc_i <= Len(input_data.documents)
    /\ CurrentFile.present
    /\ ~EndsWith(CurrentFile.filename, PdfSuffix)
    /\ console' = Append(console,
                         <<"Unsupported file type", CurrentFile.filename>>)
    /\ doc_i' = doc_i + 1
    /\ UNCHANGED <<pc, user_input, folder, input_data, sections, top_n,
                   min_similarity, similarities, relevant_sections,
                   output_data, output_file, ranker_calls, encoder_calls>>
    /\ UNCHANGED extractVars

\* return all_sections
LoadReturn ==
    /\ pc = "load"
    /\ doc_i > Len(input_data.documents)
    /\ pc' = "loaded"
    /\ UNCHANGED <<user_input, folder, input_data, doc_i, sections, top_n,
                   min_similarity, similarities, relevant_sections,
                   output_data, output_file, ranker_calls, encoder_calls,
                   console>>
    /\ UNCHANGED extractVars

\* ExitNoSections going on to the ranking instead of exiting
ContinueWithoutSections ==
    /\ pc = "loaded"
    /\ sections = <<>>
    /\ console' = Append(console, <<"No valid sections found">>)
    /\ pc' = "rank"
    /\ UNCHANGED <<user_input, folder, input_data, doc_i, sections, top_n,
                   min_similarity, similarities, relevant_sections,
                   output_data, output_file, ranker_calls, encoder_calls>>
    /\ UNCHANGED extractVars

\* if not sections: print, exit()
ExitNoSections ==
    /\ pc = "loaded"
    /\ sections = <<>>
    /\ console' = Append(console, <<"No valid sections found">>)
    /\ pc' = "exit()"
    /\ UNCHANGED <<user_input, folder, input_data, doc_i, sections, top_n,
                   min_similarity, similarities, relevant_sections,
                   output_data, output_file, ranker_calls, encoder_calls>>
    /\ UNCHANGED extractVars

\* the call of find_relevant_sections with the Config values
StartRanking ==
    /\ pc = "loaded"
    /\ sections # <<>>
    /\ top_n' = TOP_N_SECTIONS
    /\ min_similarity' = MIN_SIMILARITY_THRESHOLD
    /\ pc' = "rank"
    /\ UNCHANGED <<user_input, folder, input_data, doc_i, sections,
                   similarities, relevant_sections, output_data, output_file,
                   ranker_calls, encoder_calls, console>>
    /\ UNCHANGED extractVars

\* SentenceTransformer(model_name) or model.encode raises: the run ends with
\* the exception
EncoderUnavailable ==
    /\ pc = "rank"
    /\ ranker_calls' = ranker_calls + 1
    /\ pc' = "raised"
    /\ UNCHANGED <<user_input, folder, input_data, doc_i, sections, top_n,
                   min_similarity, similarities, relevant_sections,
                   output_data, output_file, encoder_calls, console>>
    /\ UNCHANGED extractVars

\* json.dump(output_data, f)
WriteOutput ==
    /\ pc = "write"
    /\ output_file' = output_data
    /\ pc' = "done"
    /\ UNCHANGED <<user_input, folder, input_data, doc_i, sections, top_n,
                   min_similarity, similarities, relevant_sections,
                   output_data, ranker_calls, encoder_calls, console>>
    /\ UNCHANGED extractVars

(***************************************************************************)
(* Spec: a run of __main__ on a folder of at most MaxDocs files.           *)
(***************************************************************************)
MaxDocs == 2

\* two headings, the first followed by exactly MIN_SECTION_LENGTH characters
PageHeadings == Join(<<LineUpper, Rep("a", MIN_SECTION_LENGTH),
                       LineTitle, Rep("b", MIN_SECTION_LENGTH + 10)>>, <<"\n">>)
\* one paragraph, no heading
PageParagraph == Rep("c", MIN_SECTION_LENGTH + 5) \o <<".">>
\* too short for any section
PageShort == LinePlain
\* no text once stripped
PageBlank == <<" ", "\n">>

File(name, present, pages, fail_at) ==
    [filename |-> name, present |-> present, pages |-> pages,
     fail_at |-> fail_at]

FileSamples ==
    {File(NameA, TRUE, <<PageHeadings, PageBlank, PageParagraph>>, 0),
     File(NameB, TRUE, <<PageParagraph, PageHeadings>>, 0),
     \* readable, no section
     File(<<"c", ".", "p", "d", "f">>, TRUE, <<PageShort>>, 0),
     \* listed as a PDF, refused by the loader
     File(<<"d", ".", "P", "D", "F">>, TRUE, <<PageParagraph>>, 0),
     \* dangling link
     File(<<"e", ".", "p", "d", "f">>, FALSE, <<>>, 0),
     \* reading raises at the second page
     File(<<"f", ".", "p", "d", "f">>, TRUE, <<PageParagraph, PageHeadings>>, 2),
     \* not a PDF
     File(<<"g", ".", "t", "x", "t">>, TRUE, <<>>, 0)}

RECURSIVE Listings(_)
Listings(n) ==
    IF n = 0 THEN {<<>>}
    ELSE LET shorter == Listings(n - 1)
         IN  shorter \cup
             {Append(l, f) : l \in {x \in shorter : Len(x) = n - 1},
                             f \in FileSamples}

FolderSamples ==
    {NoFolder} \cup
    {[exists |-> TRUE, listing |-> l] :
        l \in {x \in Listings(MaxDocs) :
                  \A i, j \in 1..Len(x) : i # j => x[i] # x[j]}}

UserInputSamples ==
    {NoUserInput,
     [role |-> <<"Q", "A">>, task |-> <<"G", "o">>, description |-> <<>>],
     [role |-> <<" ", "Q", "A">>, task |-> <<"G", "o", " ">>, description |-> <<"X", "y">>]}

Init ==
    /\ pc = "input"
    /\ user_input \in UserInputSamples
    /\ folder \in FolderSamples
    /\ input_data = NoInputData
    /\ doc_i = 0
    /\ sections = <<>>
    /\ top_n = TOP_N_SECTIONS
    /\ min_similarity = MIN_SIMILARITY_THRESHOLD
    /\ similarities = <<>>
    /\ relevant_sections = <<>>
    /\ output_data = <<>>
    /\ output_file = <<>>
    /\ ranker_calls = 0
    /\ encoder_calls = 0
    /\ console = <<>>
    /\ ExtractIdle

Next ==
    \/ ReadUserInput
    \/ CreateFolder
    \/ NoPdfFiles
    \/ ListDocuments
    \/ LoadMissing
    \/ LoadPdf
    \/ LoadUnsupported
    \/ LoadReturn
    \/ ExitNoSections
    \/ StartRanking
    \/ EncoderUnavailable
    \/ FindRelevant
    \/ CreateOutput
    \/ WriteOutput

Spec == Init /\ [][Next]_vars

(***************************************************************************)
(* Properties of the pipeline, under Spec.                                 *)
(***************************************************************************)
RECURSIVE ConcatAll(_)
ConcatAll(seqs) ==
    IF seqs = <<>> THEN <<>> ELSE Head(seqs) \o ConcatAll(Tail(seqs))

LoadingOver ==
    /\ pc \notin {"input", "folder", "load"}
    /\ doc_i > Len(input_data.documents)

\* what the document named by doc_info is to contribute to the pool: nothing
\* when it is missing or not a .pdf, else its pages' sections in page order,
\* each page's in emission order, tagged with the file name
ExpectedOfDocument(doc_info) ==
    LET f == FileNamed(doc_info.filename)
        pages == extract_text_with_pages_from_pdf(f)
    IN  IF ~f.present \/ ~EndsWith(doc_info.filename, PdfSuffix)
        THEN <<>>
        ELSE ConcatAll(
                 [k \in 1..Len(pages) |->
                     LET found == extract_sections_from_text(
                                      pages[k].text, pages[k].page_num, <<>>)
                     IN  [i \in 1..Len(found) |->
                             [title |-> found[i].title,
                              content |-> found[i].content,
                              page_number |-> pages[k].page_num,
                              document |-> doc_info.filename]]])

ExpectedPool(n) ==
    ConcatAll([d \in 1..n |-> ExpectedOfDocument(input_data.documents[d])])

\* C9: when the pool is empty after loading, the run ends on the "no sections"
\* diagnostic without any call of the ranker or the encoder and without any
\* report assembled or written; a report is written only when the pool was
\* not empty.
C9_EmptyPoolAborts ==
    /\ (LoadingOver /\ sections = <<>>) =>
          /\ ranker_calls = 0
          /\ encoder_calls = 0
          /\ output_data = <<>>
          /\ output_file = <<>>
          /\ pc \in {"loaded", "exit()"}
          /\ pc = "loaded" => ENABLED ExitNoSections
          /\ pc = "exit()" =>
                console[Len(console)] = <<"No valid sections found">>
    /\ output_file # <<>> => sections # <<>>

\* a run over two documents, skipped or without section, that has exited
C9_Witness ==
    /\ pc = "exit()"
    /\ Len(input_data.documents) = 2
    /\ sections = <<>>
    /\ Len(console) >= 2

\* C10: the loader takes the documents in list order and never stops early:
\* before document doc_i the pool is the concatenation of what documents
\* 1..doc_i-1 contribute, a missing or unsupported one contributing nothing,
\* and the returned pool is the concatenation over all the documents.
C10_PoolInDocumentOrder ==
    /\ pc = "load" =>
          /\ doc_i <= Len(input_data.documents) + 1
          /\ sections = ExpectedPool(doc_i - 1)
    /\ pc = "loaded" => sections = ExpectedPool(Len(input_data.documents))

\* a missing or unsupported document first, then one whose pages 1 and 3 give
\* three sections
C10_Witness ==
    /\ pc = "loaded"
    /\ Len(input_data.documents) = 2
    /\ ExpectedOfDocument(input_data.documents[1]) = <<>>
    /\ Len(console) >= 1
    /\ Len(sections) = 3
    /\ sections[1].document = input_data.documents[2].filename
    /\ sections[2].page_number = 1
    /\ sections[3].page_number = 3

====
